---- MODULE Spec2Model ----
(***************************************************************************)
(* A model of promise-rs (src/src/lib.rs): one Promise whose executor runs *)
(* on a background thread and settles it through the resolve / reject      *)
(* closures, and an owner thread that calls then / catch / a_await on it.  *)
(* Each of the three fields (value, status, handlers) sits behind its own  *)
(* Mutex; the model keeps the holder of each one, and one action is one    *)
(* step between two lock operations.  Spec is that Promise with any        *)
(* executor and any owner; SpecAll is a call of Promise::all / all_ex on   *)
(* NMembers Promises, up to the settlement of the Promise it returns.      *)
(***************************************************************************)
EXTENDS Integers, Sequences, FiniteSets, TLC

(* ------------------------------ bounds --------------------------------- *)

\* how many times the executor may call resolve / reject
MaxCalls == 2
\* how many then / catch calls the owner thread issues
MaxOwnerCalls == 2
\* how many Promises are passed to all / all_ex
NMembers == 3

(* ------------------------------ payloads ------------------------------- *)

\* Option<String>: None, or Some(s) with s a sequence of characters (numbers)
NoneVal == [some |-> FALSE, str |-> <<>>]
Some(s) == [some |-> TRUE, str |-> s]

\* variant: an absent value is rendered as a one-character text
UnwrapOrPlaceholder(x) == IF x.some THEN x.str ELSE <<0>>

\* Option::unwrap_or(String::new())
UnwrapOrEmpty(x) == IF x.some THEN x.str ELSE <<>>

\* the payloads an executor passes to resolve / reject
Payloads == {NoneVal, Some(<<0>>)}

(* ------------------------------ handlers ------------------------------- *)

\* The user transforms the model draws from:
\*   "app"  |v| Some(v.unwrap_or_default() + tag)   (depends on its input)
\*   "id"   |v| v                                   (src/src/main.rs:33)
\*   "none" |_| None                                (src/src/main.rs:35-38)
Kinds == {"app", "id", "none"}

\* struct Handler { resolve: bool, handler: Box<dyn Fn> }; id names the closure
Handler(isResolve, id, kind) == [resolve |-> isResolve, id |-> id, kind |-> kind]

\* (handler.handler)(x)
Apply(h, x) ==
  CASE h.kind = "app"  -> Some(Append(UnwrapOrEmpty(x), h.id))
    [] h.kind = "id"   -> x
    [] h.kind = "none" -> NoneVal

\* the closures of the k-th owner call: on_fulfilled gets the odd id, on_rejected the even one
FulfilledId(k) == 2 * k - 1
RejectedId(k) == 2 * k

(* ------------------------------ state ---------------------------------- *)

VARIABLES
  value,      \* Promise.value   : Option<String>
  status,     \* Promise.status  : "Pending" | "Fulfilled" | "Rejected"
  handlers,   \* Promise.handlers: Option<Vec<Handler>>, [avail, q]
  vlock,      \* holder of the value mutex:    "free" | "bg" | "owner"
  slock,      \* holder of the status mutex
  hlock,      \* holder of the handlers mutex
  hpoisoned,  \* the handlers mutex is poisoned (a thread panicked holding it)
  made,       \* the resolve / reject calls the executor has made, in order
  ci,         \* number of executor calls that have returned
  bpc,        \* position of the background thread
  iter,       \* into_iter() of the taken Vec: the handlers still to visit
  prev,       \* prev_value / prev_reason of the running closure
  opc,        \* position of the owner thread
  ost,        \* the owner's local `status`
  issued,     \* the then / catch calls the owner has started, in order
  pushed,     \* log of the entries pushed onto the queue, in order
  invoked,    \* log of the handler invocations, in order
  \* Promise::all / Promise::all_ex: the members and the locals of the call
  mstatus,    \* promises[i].status
  mvalue,     \* promises[i].value
  mthread,    \* promises[i].thread: "exec" | "settled" | "done"
  morder,     \* log of the members that settled, in the order they did
  apc,        \* position of the all_ex call
  entry,      \* the function the caller used: "all" | "all_ex"
  delimeter,  \* the delimeter parameter
  idx,        \* the member the for loop is at
  rejected,
  resolved_result,
  first_reject_reason

vars == <<value, status, handlers, vlock, slock, hlock, hpoisoned, made, ci,
          bpc, iter, prev, opc, ost, issued, pushed, invoked,
          mstatus, mvalue, mthread, morder, apc, entry, delimeter, idx, rejected,
          resolved_result, first_reject_reason>>

promiseVars == <<value, status, handlers, vlock, slock, hlock, hpoisoned>>
bgVars == <<made, ci, bpc, iter, prev>>
ownerVars == <<opc, ost, issued>>
memberVars == <<mstatus, mvalue, mthread, morder>>
allVars == <<apc, entry, delimeter, idx, rejected, resolved_result, first_reject_reason>>

\* what an executor may do next: resolve(arg) or reject(arg), or return
ExecCalls == [kind : {"resolve", "reject"}, arg : Payloads]

\* the members of all_ex
Members == 1..NMembers

\* no all / all_ex call is part of the run
NoAll ==
  /\ mstatus = <<>>
  /\ mvalue = <<>>
  /\ mthread = <<>>
  /\ morder = <<>>
  /\ apc = "off"
  /\ entry = "none"
  /\ delimeter = <<>>
  /\ idx = 0
  /\ rejected = FALSE
  /\ resolved_result = <<>>
  /\ first_reject_reason = <<>>

\* Promise::new: value None, status Pending, handlers Some(vec![]), thread spawned
Init ==
  /\ NoAll
  /\ value = NoneVal
  /\ status = "Pending"
  /\ handlers = [avail |-> TRUE, q |-> <<>>]
  /\ vlock = "free"
  /\ slock = "free"
  /\ hlock = "free"
  /\ hpoisoned = FALSE
  /\ made = <<>>
  /\ ci = 0
  /\ bpc = "exec"
  /\ iter = <<>>
  /\ prev = NoneVal
  /\ opc = "idle"
  /\ ost = "Pending"
  /\ issued = <<>>
  /\ pushed = <<>>
  /\ invoked = <<>>

(* ------------------- background thread: resolve / reject --------------- *)

\* the executor call in progress: the last one made
CurCall == made[Len(made)]

\* Status written by the closure: resolve -> Fulfilled, reject -> Rejected
SettledStatus(kind) == IF kind = "resolve" THEN "Fulfilled" ELSE "Rejected"

\* variant: the reject closure tests handler.resolve == true, like resolve
MatchesResolveOnly(kind, h) == h.resolve = TRUE

\* `if handler.resolve == true` in resolve, `if handler.resolve == false` in reject
Matches(kind, h) == IF kind = "resolve" THEN h.resolve = TRUE ELSE h.resolve = FALSE

\* variant: take().unwrap_or_default(), a consumed queue reads as an empty one
TakeNeverPanics(hs) == FALSE

\* Option::take().unwrap() panics on None: the queue was consumed before
TakePanics(hs) == ~hs.avail

\* variant: the taken Vec is visited from the back
TakenReversed(hs) == [i \in 1..Len(hs.q) |-> hs.q[Len(hs.q) + 1 - i]]

\* the Vec that take() hands to into_iter()
Taken(hs) == hs.q

\* variant: the queue is cloned, not taken, and stays in place
TakeLeavesQueue(hs) == hs

\* what Option::take() leaves behind: None
AfterTake(hs) == [avail |-> FALSE, q |-> <<>>]

\* variant: the loop steps over the entry after the one it visits
RestEntriesSkipping(it) == IF Len(it) >= 2 THEN Tail(Tail(it)) ELSE <<>>

\* the entry the for loop visits next, and what is left after it
NextEntry(it) == Head(it)
RestEntries(it) == Tail(it)

\* one iteration of the body of the for loop on entry h with running value x
FoldBody(kind, h, x) == IF Matches(kind, h) THEN Apply(h, x) ELSE x

\* record of one handler invocation: the closure, what it was given, what came
\* back, and whether settlement or an immediate then / catch ran it
Invocation(h, x, y, who) == [h |-> h, arg |-> x, ret |-> y, by |-> who]

\* executor(&resolve, &reject): the executor calls resolve(c.arg) or reject(c.arg)
BgCall(c) ==
  /\ bpc = "exec"
  /\ Len(made) < MaxCalls
  /\ made' = Append(made, c)
  /\ bpc' = "take"
  /\ prev' = c.arg
  /\ UNCHANGED <<ci, iter, promiseVars, ownerVars, pushed, invoked>>
  /\ UNCHANGED <<memberVars, allVars>>

\* the executor returns and the spawned thread ends
BgExit ==
  /\ bpc = "exec"
  /\ bpc' = "done"
  /\ UNCHANGED <<made, ci, iter, prev, promiseVars, ownerVars, pushed, invoked>>
  /\ UNCHANGED <<memberVars, allVars>>

\* handlers.lock().unwrap().take().unwrap().into_iter(): the guard is a
\* temporary of the for expression and lives until the loop ends.  A poisoned
\* mutex panics in lock().unwrap(); a consumed queue panics in take().unwrap()
\* while the guard is held, which poisons the mutex.
BgTake ==
  /\ bpc = "take"
  /\ hlock = "free"
  /\ IF hpoisoned
       THEN /\ bpc' = "aborted"
            /\ UNCHANGED <<handlers, hlock, hpoisoned, iter>>
       ELSE IF TakePanics(handlers)
         THEN /\ bpc' = "aborted"
              /\ hpoisoned' = TRUE
              /\ UNCHANGED <<handlers, hlock, iter>>
         ELSE /\ bpc' = "fold"
              /\ iter' = Taken(handlers)
              /\ handlers' = AfterTake(handlers)
              /\ hlock' = "bg"
              /\ UNCHANGED hpoisoned
  /\ UNCHANGED <<made, ci, prev, value, status, vlock, slock, ownerVars, pushed, invoked>>
  /\ UNCHANGED <<memberVars, allVars>>

\* one iteration of the for loop, the handlers guard still held
BgFold ==
  /\ bpc = "fold"
  /\ iter # <<>>
  /\ LET h == NextEntry(iter) IN
       /\ prev' = FoldBody(CurCall.kind, h, prev)
       /\ invoked' = IF Matches(CurCall.kind, h)
                       THEN Append(invoked, Invocation(h, prev, prev', "settle"))
                       ELSE invoked
  /\ iter' = RestEntries(iter)
  /\ UNCHANGED <<made, ci, bpc, promiseVars, ownerVars, pushed>>
  /\ UNCHANGED <<memberVars, allVars>>

\* variant: the handlers guard outlives the loop and is never dropped
BgFoldEndKeepsGuard ==
  /\ bpc = "fold"
  /\ iter = <<>>
  /\ bpc' = "store"
  /\ UNCHANGED <<made, ci, iter, prev, promiseVars, ownerVars, pushed, invoked>>
  /\ UNCHANGED <<memberVars, allVars>>

\* the loop ends: the iterator and the handlers guard are dropped
BgFoldEnd ==
  /\ bpc = "fold"
  /\ iter = <<>>
  /\ hlock' = "free"
  /\ bpc' = "store"
  /\ UNCHANGED <<made, ci, iter, prev, value, status, handlers, vlock, slock,
                 hpoisoned, ownerVars, pushed, invoked>>
  /\ UNCHANGED <<memberVars, allVars>>

\* variant: the two writes of the closure are swapped, Status goes first
BgStoreStatusFirst ==
  /\ bpc = "store"
  /\ vlock = "free"
  /\ vlock' = "bg"
  /\ status' = SettledStatus(CurCall.kind)
  /\ bpc' = "status"
  /\ UNCHANGED <<made, ci, iter, prev, value, handlers, slock, hlock,
                 hpoisoned, ownerVars, pushed, invoked>>
  /\ UNCHANGED <<memberVars, allVars>>

\* let mut result = result.lock().unwrap(); *result = prev_value;
BgStore ==
  /\ bpc = "store"
  /\ vlock = "free"
  /\ vlock' = "bg"
  /\ value' = prev
  /\ bpc' = "status"
  /\ UNCHANGED <<made, ci, iter, prev, status, handlers, slock, hlock,
                 hpoisoned, ownerVars, pushed, invoked>>
  /\ UNCHANGED <<memberVars, allVars>>

\* let mut state_guard = status.lock().unwrap(); *state = Status::...;
BgSetStatus ==
  /\ bpc = "status"
  /\ slock = "free"
  /\ slock' = "bg"
  /\ status' = SettledStatus(CurCall.kind)
  /\ bpc' = "drop_state"
  /\ UNCHANGED <<made, ci, iter, prev, value, handlers, vlock, hlock,
                 hpoisoned, ownerVars, pushed, invoked>>
  /\ UNCHANGED <<memberVars, allVars>>

\* end of the closure: state_guard is dropped first ...
BgDropStateGuard ==
  /\ bpc = "drop_state"
  /\ slock' = "free"
  /\ bpc' = "drop_result"
  /\ UNCHANGED <<made, ci, iter, prev, value, status, handlers, vlock, hlock,
                 hpoisoned, ownerVars, pushed, invoked>>
  /\ UNCHANGED <<memberVars, allVars>>

\* ... then the value guard, and the call returns to the executor
BgDropResultGuard ==
  /\ bpc = "drop_result"
  /\ vlock' = "free"
  /\ bpc' = "exec"
  /\ ci' = ci + 1
  /\ UNCHANGED <<made, iter, prev, value, status, handlers, slock, hlock,
                 hpoisoned, ownerVars, pushed, invoked>>
  /\ UNCHANGED <<memberVars, allVars>>

Bg ==
  \/ \E c \in ExecCalls : BgCall(c)
  \/ BgExit \/ BgTake \/ BgFold \/ BgFoldEnd
  \/ BgStore \/ BgSetStatus \/ BgDropStateGuard \/ BgDropResultGuard

(* ------------------- owner thread: then / catch / a_await -------------- *)

\* the owner call in progress: the last one issued
CurK == Len(issued)
CurOp == issued[CurK]

\* on_fulfilled / on_rejected of the call in progress
OnFulfilled == Handler(TRUE, FulfilledId(CurK), CurOp.f)
OnRejected == Handler(FALSE, RejectedId(CurK), CurOp.g)

\* the arm `match status` selects in then: the handler it applies at once, if any
ThenArm(st) ==
  CASE st = "Fulfilled" -> "on_fulfilled"
    [] st = "Rejected"  -> "on_rejected"
    [] st = "Pending"   -> "push"

\* variant: catch matches like then and applies its handler on Fulfilled too
CatchArmApplying(st) == IF st = "Pending" THEN "push" ELSE "on_rejected"

\* the arm `match status` selects in catch
CatchArm(st) ==
  CASE st = "Fulfilled" -> "nothing"
    [] st = "Rejected"  -> "on_rejected"
    [] st = "Pending"   -> "push"

\* variant: the entry is inserted at the front of the queue
PushAtFront(q, h) == <<h>> \o q

\* Vec::push on the queue
Push(q, h) == Append(q, h)

\* let status = self.status.lock().unwrap().clone().unwrap(); at the top of then
ThenStart(fk, gk) ==
  /\ opc = "idle"
  /\ Len(issued) < MaxOwnerCalls
  /\ slock = "free"
  /\ ost' = status
  /\ issued' = Append(issued, [op |-> "then", f |-> fk, g |-> gk])
  /\ opc' = "then_match"
  /\ UNCHANGED <<promiseVars, bgVars, pushed, invoked>>
  /\ UNCHANGED <<memberVars, allVars>>

\* Fulfilled / Rejected arm of then: lock the value, apply the handler, store
ThenApply ==
  /\ opc = "then_match"
  /\ ThenArm(ost) # "push"
  /\ vlock = "free"
  /\ LET h == IF ThenArm(ost) = "on_fulfilled" THEN OnFulfilled ELSE OnRejected IN
       /\ value' = Apply(h, value)
       /\ invoked' = Append(invoked, Invocation(h, value, value', "immediate"))
  /\ vlock' = "owner"
  /\ opc' = "unlock_value"
  /\ UNCHANGED <<status, handlers, slock, hlock, hpoisoned, bgVars, ost, issued,
                 pushed>>
  /\ UNCHANGED <<memberVars, allVars>>

\* end of the arm: the value guard is dropped and the call returns self
OwnerUnlockValue ==
  /\ opc = "unlock_value"
  /\ vlock' = "free"
  /\ opc' = "idle"
  /\ UNCHANGED <<value, status, handlers, slock, hlock, hpoisoned, bgVars,
                 ost, issued, pushed, invoked>>
  /\ UNCHANGED <<memberVars, allVars>>

\* self.handlers.lock().unwrap().as_mut().unwrap().push(h): lock().unwrap()
\* panics on a poisoned mutex, as_mut().unwrap() panics on a consumed queue
\* (with the guard held, which poisons the mutex)
PushOrPanic(h, next) ==
  /\ hlock = "free"
  /\ IF hpoisoned
       THEN /\ opc' = "aborted"
            /\ UNCHANGED <<handlers, hpoisoned, pushed>>
       ELSE IF ~handlers.avail
         THEN /\ opc' = "aborted"
              /\ hpoisoned' = TRUE
              /\ UNCHANGED <<handlers, pushed>>
         ELSE /\ handlers' = [handlers EXCEPT !.q = Push(@, h)]
              /\ pushed' = Append(pushed, h)
              /\ opc' = next
              /\ UNCHANGED hpoisoned
  /\ UNCHANGED <<value, status, vlock, slock, hlock, bgVars, ost, issued, invoked>>
  /\ UNCHANGED <<memberVars, allVars>>

\* Pending arm of then: push(handler_fulfilled)
ThenPushFulfilled ==
  /\ opc = "then_match"
  /\ ThenArm(ost) = "push"
  /\ PushOrPanic(OnFulfilled, "then_push_rejected")

\* Pending arm of then: push(handler_rejected), a second lock of the queue
ThenPushRejected ==
  /\ opc = "then_push_rejected"
  /\ PushOrPanic(OnRejected, "idle")

\* let status = self.status.lock().unwrap().clone().unwrap(); at the top of catch
CatchStart(gk) ==
  /\ opc = "idle"
  /\ Len(issued) < MaxOwnerCalls
  /\ slock = "free"
  /\ ost' = status
  /\ issued' = Append(issued, [op |-> "catch", f |-> "id", g |-> gk])
  /\ opc' = "catch_match"
  /\ UNCHANGED <<promiseVars, bgVars, pushed, invoked>>
  /\ UNCHANGED <<memberVars, allVars>>

\* Status::Fulfilled => {}
CatchNothing ==
  /\ opc = "catch_match"
  /\ CatchArm(ost) = "nothing"
  /\ opc' = "idle"
  /\ UNCHANGED <<promiseVars, bgVars, ost, issued, pushed, invoked>>
  /\ UNCHANGED <<memberVars, allVars>>

\* Rejected arm of catch: lock the value, apply on_rejected, store
CatchApply ==
  /\ opc = "catch_match"
  /\ CatchArm(ost) = "on_rejected"
  /\ vlock = "free"
  /\ value' = Apply(OnRejected, value)
  /\ invoked' = Append(invoked, Invocation(OnRejected, value, value', "immediate"))
  /\ vlock' = "owner"
  /\ opc' = "unlock_value"
  /\ UNCHANGED <<status, handlers, slock, hlock, hpoisoned, bgVars, ost, issued,
                 pushed>>
  /\ UNCHANGED <<memberVars, allVars>>

\* Pending arm of catch: push(handler)
CatchPush ==
  /\ opc = "catch_match"
  /\ CatchArm(ost) = "push"
  /\ PushOrPanic(OnRejected, "idle")

\* variant: the thread is not joined, a_await returns at once
AwaitWithoutJoin ==
  /\ opc = "idle"
  /\ opc' = "joined"
  /\ UNCHANGED <<promiseVars, bgVars, ost, issued, pushed, invoked>>
  /\ UNCHANGED <<memberVars, allVars>>

\* variant: the wait is for settlement, not for the end of the thread
AwaitSettlement ==
  /\ opc = "idle"
  /\ bpc \in {"done", "aborted"}
  /\ status # "Pending"
  /\ opc' = "joined"
  /\ UNCHANGED <<promiseVars, bgVars, ost, issued, pushed, invoked>>
  /\ UNCHANGED <<memberVars, allVars>>

\* a_await: self.thread.join() returns once the thread ended, normally or by panic
Await ==
  /\ opc = "idle"
  /\ bpc \in {"done", "aborted"}
  /\ opc' = "joined"
  /\ UNCHANGED <<promiseVars, bgVars, ost, issued, pushed, invoked>>
  /\ UNCHANGED <<memberVars, allVars>>

Owner ==
  \/ \E fk \in Kinds, gk \in Kinds : ThenStart(fk, gk)
  \/ ThenApply \/ OwnerUnlockValue \/ ThenPushFulfilled \/ ThenPushRejected
  \/ \E gk \in Kinds : CatchStart(gk)
  \/ CatchNothing \/ CatchApply \/ CatchPush
  \/ Await

Next == Bg \/ Owner

Spec == Init /\ [][Next]_vars

(* ------------------- scheduling of the two threads --------------------- *)

\* the steps inside a resolve / reject call
BgStep ==
  \/ BgTake \/ BgFold \/ BgFoldEnd
  \/ BgStore \/ BgSetStatus \/ BgDropStateGuard \/ BgDropResultGuard

\* the steps inside a then / catch call, after its read of Status
OwnerStep ==
  \/ ThenApply \/ OwnerUnlockValue \/ ThenPushFulfilled \/ ThenPushRejected
  \/ CatchNothing \/ CatchApply \/ CatchPush

\* The owner with one user transform for every handler: which mutex a call
\* locks, and when, does not depend on what the transforms compute.
OwnerOneKind ==
  \/ ThenStart("app", "app")
  \/ CatchStart("app")
  \/ OwnerStep
  \/ Await

NextFair == Bg \/ OwnerOneKind

\* Both are OS threads: a thread that can take its next step inside a call
\* (its lock is free) eventually takes it.  Starting a call is up to the
\* executor and the owner.
SpecFair == Init /\ [][NextFair]_vars /\ WF_vars(BgStep) /\ WF_vars(OwnerStep)

\* The executor of Promise::resolve / Promise::reject, or one like it: it
\* calls resolve or reject once and returns.
ExecOnceCall(c) ==
  /\ made = <<>>
  /\ BgCall(c)

ExecOnceExit ==
  /\ ci = 1
  /\ BgExit

BgOnce ==
  \/ \E c \in ExecCalls : ExecOnceCall(c)
  \/ BgStep
  \/ ExecOnceExit

NextOnce == BgOnce \/ Owner

\* the spawned thread is scheduled until it ends
SpecOnce == Init /\ [][NextOnce]_vars /\ WF_vars(BgOnce)

(* ------------------- Promise::all / Promise::all_ex -------------------- *)

\* ';', the delimeter Promise::all passes to all_ex
Semicolon == 59

DefaultDelimeter == <<Semicolon>>

\* the delimeters a caller of all_ex passes: empty, and a two-character one
Delimeters == {<<>>, <<0, 0>>}

\* what the executor of member i passes to resolve / reject
MemberPayloads(i) == {NoneVal, Some(<<i>>)}
MemberCalls(i) == [kind : {"resolve", "reject"}, arg : MemberPayloads(i)]

\* [String]::join(delimeter)
RECURSIVE Join(_, _)
Join(strs, d) ==
  IF strs = <<>> THEN <<>>
  ELSE IF Len(strs) = 1 THEN strs[1]
  ELSE strs[1] \o d \o Join(Tail(strs), d)

\* variant: the new element is put in front
PushFront(rr, v) == <<v>> \o rr

\* resolved_result.push(value)
PushResult(rr, v) == Append(rr, v)

\* variant: only the first rejection sets the reason
KeepFirstReason(old, new) == IF rejected THEN old ELSE new

\* first_reject_reason = value: the reason kept when one is already there
KeepReason(old, new) == new

\* variant: a member still Pending is collected like a Fulfilled one
AllArmPendingPushes(st) == IF st = "Rejected" THEN "reject" ELSE "push"

\* the arm `match status` selects in the loop of all_ex
AllArm(st) ==
  CASE st = "Fulfilled" -> "push"
    [] st = "Rejected"  -> "reject"
    [] st = "Pending"   -> "nothing"

\* the executor all_ex hands to Promise::reject / Promise::resolve
ResultCall ==
  IF rejected
    THEN [kind |-> "reject", arg |-> Some(first_reject_reason)]
    ELSE [kind |-> "resolve", arg |-> Some(Join(resolved_result, delimeter))]

\* the members were constructed and their threads run; all / all_ex is about
\* to be called; the Promise it returns does not exist yet
InitAll ==
  /\ mstatus = [i \in Members |-> "Pending"]
  /\ mvalue = [i \in Members |-> NoneVal]
  /\ mthread = [i \in Members |-> "exec"]
  /\ morder = <<>>
  /\ apc = "call"
  /\ entry = "none"
  /\ delimeter = <<>>
  /\ idx = 0
  /\ rejected = FALSE
  /\ resolved_result = <<>>
  /\ first_reject_reason = <<>>
  /\ value = NoneVal
  /\ status = "Pending"
  /\ handlers = [avail |-> TRUE, q |-> <<>>]
  /\ vlock = "free"
  /\ slock = "free"
  /\ hlock = "free"
  /\ hpoisoned = FALSE
  /\ made = <<>>
  /\ ci = 0
  /\ bpc = "unborn"
  /\ iter = <<>>
  /\ prev = NoneVal
  /\ opc = "idle"
  /\ ost = "Pending"
  /\ issued = <<>>
  /\ pushed = <<>>
  /\ invoked = <<>>

resultVars == <<promiseVars, bgVars, ownerVars, pushed, invoked>>

\* the thread of member i runs resolve(c.arg) / reject(c.arg) on its empty
\* queue: value, then status.  The steps of the closure are one step here:
\* all_ex reads a member only after joining its thread.
MemberSettle(i, c) ==
  /\ mthread[i] = "exec"
  /\ mvalue' = [mvalue EXCEPT ![i] = c.arg]
  /\ mstatus' = [mstatus EXCEPT ![i] = SettledStatus(c.kind)]
  /\ mthread' = [mthread EXCEPT ![i] = "settled"]
  /\ morder' = Append(morder, i)
  /\ UNCHANGED <<allVars, resultVars>>

\* the executor of member i returns, with or without having settled
MemberExit(i) ==
  /\ mthread[i] \in {"exec", "settled"}
  /\ mthread' = [mthread EXCEPT ![i] = "done"]
  /\ UNCHANGED <<mstatus, mvalue, morder, allVars, resultVars>>

\* the locals of all_ex before its loop
AllExEnter(who, d) ==
  /\ apc = "call"
  /\ entry' = who
  /\ delimeter' = d
  /\ rejected' = FALSE
  /\ resolved_result' = <<>>
  /\ first_reject_reason' = <<>>
  /\ idx' = 1
  /\ apc' = "join"
  /\ UNCHANGED <<memberVars, resultVars>>

\* Promise::all(promises) = Promise::all_ex(promises, ";")
All == AllExEnter("all", DefaultDelimeter)

\* Promise::all_ex(promises, d)
AllEx(d) == AllExEnter("all_ex", d)

\* one iteration of the loop: join the thread, read status and value, match
AllJoin ==
  /\ apc = "join"
  /\ idx <= NMembers
  /\ mthread[idx] = "done"
  /\ LET st == mstatus[idx]
         v == UnwrapOrEmpty(mvalue[idx])
     IN CASE AllArm(st) = "push" ->
               /\ resolved_result' = PushResult(resolved_result, v)
               /\ UNCHANGED <<rejected, first_reject_reason>>
          [] AllArm(st) = "reject" ->
               /\ rejected' = TRUE
               /\ first_reject_reason' = KeepReason(first_reject_reason, v)
               /\ UNCHANGED resolved_result
          [] AllArm(st) = "nothing" ->
               UNCHANGED <<rejected, resolved_result, first_reject_reason>>
  /\ idx' = idx + 1
  /\ UNCHANGED <<apc, entry, delimeter, memberVars, resultVars>>

\* return Promise::reject(..) / Promise::resolve(..): Promise::new spawns the
\* thread of the returned Promise
AllReturn ==
  /\ apc = "join"
  /\ idx > NMembers
  /\ apc' = "returned"
  /\ bpc' = "exec"
  /\ UNCHANGED <<entry, delimeter, idx, rejected, resolved_result,
                 first_reject_reason, memberVars, promiseVars, made, ci, iter,
                 prev, ownerVars, pushed, invoked>>

\* the executor of the returned Promise: reject(reason.clone()) or
\* resolve(value.clone()), once
ResultSettle ==
  /\ apc = "returned"
  /\ made = <<>>
  /\ BgCall(ResultCall)

\* ... and it returns
ResultExit ==
  /\ apc = "returned"
  /\ ci = 1
  /\ BgExit

NextAll ==
  \/ \E i \in Members : \E c \in MemberCalls(i) : MemberSettle(i, c)
  \/ \E i \in Members : MemberExit(i)
  \/ All
  \/ \E d \in Delimeters : AllEx(d)
  \/ AllJoin
  \/ AllReturn
  \/ ResultSettle
  \/ BgTake \/ BgFoldEnd \/ BgStore \/ BgSetStatus
  \/ BgDropStateGuard \/ BgDropResultGuard
  \/ ResultExit

SpecAll == InitAll /\ [][NextAll]_vars

(* ------------------------------ properties ----------------------------- *)

\* the handlers settlement invoked, and those applied at once, in order
SettleLog == SelectSeq(invoked, LAMBDA e : e.by = "settle")
ImmediateLog == SelectSeq(invoked, LAMBDA e : e.by = "immediate")

\* the settlement call that went through: the executor's first call
First == made[1]

\* C1 Single settlement: Status starts Pending and, once it is Fulfilled or
\* Rejected, every later state has that same Status, whatever the executor
\* calls (resolve / reject zero, one or several times) and however then /
\* catch interleave.
C1_SingleSettlement ==
  /\ status = "Pending"
  /\ [][status # "Pending" => status' = status]_vars

\* C1 witness: the executor called resolve and reject (one each), the owner
\* called then / catch, and Status still is what the first call stored
C1_Witness ==
  /\ Len(made) = 2
  /\ made[1].kind # made[2].kind
  /\ bpc = "aborted"
  /\ status = SettledStatus(made[1].kind)
  /\ Len(issued) = MaxOwnerCalls

\* C2 (as claimed) Race between registration and settlement: a then / catch
\* call that starts once settlement has taken the handler queue observes
\* Status # Pending.
C2_StartAfterTakeSeesSettled ==
  [][(Len(issued') = Len(issued) + 1 /\ ~handlers.avail) => ost' # "Pending"]_vars

\* C3 Order preservation: settlement invokes the handlers of its path that
\* were queued, in registration order; the first receives the executor's
\* payload, each next one the return value of the one before it, and the
\* value stored is the return value of the last one.
C3_OrderPreservation ==
  (Len(made) >= 1 /\ bpc \notin {"take", "fold"}) =>
    /\ [i \in 1..Len(SettleLog) |-> SettleLog[i].h]
         = SelectSeq(pushed, LAMBDA h : h.resolve = (First.kind = "resolve"))
    /\ \A i \in 1..Len(SettleLog) :
         SettleLog[i].arg = IF i = 1 THEN First.arg ELSE SettleLog[i - 1].ret
    /\ bpc = "status" =>
         value = IF SettleLog = <<>> THEN First.arg
                 ELSE SettleLog[Len(SettleLog)].ret

\* C3 witness: two input-dependent fulfillment handlers were queued, then the
\* executor resolved and the folded value has just been stored
C3_Witness ==
  /\ bpc = "status"
  /\ First.kind = "resolve"
  /\ Len(SettleLog) = 2
  /\ \A i \in 1..2 : SettleLog[i].h.kind = "app"
  /\ value = Some(UnwrapOrEmpty(First.arg) \o <<FulfilledId(1), FulfilledId(2)>>)

\* C4 Path isolation: no fulfillment handler is ever invoked on a Promise that
\* settles to Rejected and no rejection handler on one that settles to
\* Fulfilled, be it invoked by settlement or at once by then / catch.
C4_PathIsolation ==
  /\ made = <<>> => invoked = <<>>
  /\ \A i \in 1..Len(invoked) :
       invoked[i].h.resolve = (First.kind = "resolve")
  /\ status # "Pending" => status = SettledStatus(First.kind)

\* C4 witness: a Rejected Promise with a then pair queued before settlement
\* (its rejection handler run by settlement, its fulfillment handler skipped)
\* and a rejection handler applied at once afterwards
C4_Witness ==
  /\ status = "Rejected"
  /\ \E i \in 1..Len(pushed) : pushed[i].resolve
  /\ SettleLog # <<>>
  /\ ImmediateLog # <<>>

\* the owner is between calls, or has stopped (joined the thread, or panicked)
OwnerAtRest == opc \in {"idle", "joined", "aborted"}

\* the executor made exactly one call, resolve(v), and returned
ResolvedOnce == Len(made) = 1 /\ First.kind = "resolve" /\ bpc = "done"

\* C5 (as claimed) Immediate-apply equivalence: the executor resolves with v
\* and the owner makes a single then(f, g) call; once both are over the stored
\* value is f(v), wherever the call fell relative to settlement.
C5_SingleThenYieldsFv ==
  (ResolvedOnce /\ OwnerAtRest /\ Len(issued) = 1 /\ issued[1].op = "then") =>
    value = Apply(Handler(TRUE, FulfilledId(1), issued[1].f), First.arg)

\* how often a closure was invoked, by settlement or at once
TimesInvoked(h) == Cardinality({i \in 1..Len(invoked) : invoked[i].h = h})

\* C6 Exactly-once dispatch: once settlement's loop is over, every queued
\* entry of the settled path has been invoked exactly once, by settlement; no
\* closure passed to then / catch is ever invoked twice, and none that was
\* queued is also applied at once.
C6_ExactlyOnce ==
  /\ \A i, j \in 1..Len(invoked) : invoked[i].h = invoked[j].h => i = j
  /\ \A i \in 1..Len(pushed) :
       /\ \A j \in 1..Len(invoked) : invoked[j].h = pushed[i] => invoked[j].by = "settle"
       /\ (Len(made) >= 1 /\ bpc \notin {"take", "fold"}
             /\ pushed[i].resolve = (First.kind = "resolve"))
            => TimesInvoked(pushed[i]) = 1

\* C6 witness: a rejection has run both a then pair's and a catch's queued
\* rejection handlers, one time each
C6_Witness ==
  /\ status = "Rejected"
  /\ Len(pushed) = 3
  /\ Len(SettleLog) = 2
  /\ \A i \in 1..Len(pushed) : ~pushed[i].resolve => TimesInvoked(pushed[i]) = 1

\* the owner is at a push: it needs the handlers mutex
OwnerAtPush ==
  \/ opc = "then_match" /\ ThenArm(ost) = "push"
  \/ opc = "then_push_rejected"
  \/ opc = "catch_match" /\ CatchArm(ost) = "push"

\* C7 (as claimed) then / catch never block: the owner is never at a push
\* while the settling thread holds the handlers mutex with user transforms
\* still to run under it.
C7_NeverWaitsOnFold ==
  ~(/\ OwnerAtPush
    /\ hlock = "bg"
    /\ \E i \in 1..Len(iter) : Matches(CurCall.kind, iter[i]))

\* C8 (as claimed) Double settlement is unguarded: a second resolve / reject
\* call runs to completion and its Status replaces the first call's.
C8_SecondCallOverwrites ==
  (Len(made) = 2 /\ bpc \in {"exec", "done", "aborted"}) =>
    /\ bpc # "aborted"
    /\ status = SettledStatus(made[2].kind)

\* C8 (amended) A second resolve / reject call finds the queue consumed (or
\* its mutex poisoned) and panics there, ending the background thread: it
\* never reaches the writes of value and Status, which stay as the first call
\* and the handlers run since left them.
C8_SecondCallAborts ==
  Len(made) = 2 =>
    /\ bpc \in {"take", "aborted"}
    /\ ci = 1
    /\ status = SettledStatus(First.kind)
    /\ value = IF invoked = <<>> THEN First.arg ELSE invoked[Len(invoked)].ret

\* C8 witness: resolve(None) then reject(Some) were called, the second one
\* panicked, and the Promise is still Fulfilled with the first payload
C8_Witness ==
  /\ Len(made) = 2
  /\ bpc = "aborted"
  /\ made[1].kind = "resolve"
  /\ made[2].kind = "reject"
  /\ made[1].arg # made[2].arg
  /\ invoked = <<>>
  /\ status = "Fulfilled"
  /\ value = made[1].arg

\* the closure given to the k-th owner call, when that call is a catch
IsCatchHandler(h) ==
  \E k \in 1..Len(issued) : issued[k].op = "catch" /\ h = Handler(FALSE, RejectedId(k), issued[k].g)

\* C9 catch is a no-op on the success path: when the executor resolves with
\* v, no closure given to catch is ever invoked, whenever the catch call came;
\* with catch calls only, once resolve has returned the value is v and the
\* Status Fulfilled.
C9_CatchNoOpOnSuccess ==
  (Len(made) >= 1 /\ First.kind = "resolve") =>
    /\ \A i \in 1..Len(invoked) : ~IsCatchHandler(invoked[i].h)
    /\ (ci >= 1 /\ \A k \in 1..Len(issued) : issued[k].op = "catch") =>
         (value = First.arg /\ status = "Fulfilled")

\* C9 witness: resolve(v) has returned; one catch was queued before
\* settlement and one found the Promise Fulfilled and returned
C9_Witness ==
  /\ ResolvedOnce
  /\ opc = "idle"
  /\ Len(issued) = 2
  /\ \A k \in 1..2 : issued[k].op = "catch"
  /\ Len(pushed) = 1
  /\ ost = "Fulfilled"
  /\ value = First.arg

\* what member i contributes: its final value, or "" when absent
MemberStr(i) == UnwrapOrEmpty(mvalue[i])

\* the separator the caller asked for: ";" through all, its argument through all_ex
Sep == IF entry = "all" THEN <<Semicolon>> ELSE delimeter

\* where member i's contribution starts in the joined string (0-based)
RECURSIVE Offset(_)
Offset(i) == IF i = 1 THEN 0 ELSE Offset(i - 1) + Len(MemberStr(i - 1)) + Len(Sep)

\* the Promise all / all_ex returned has settled and its thread has ended
ResultDone == apc = "returned" /\ bpc = "done"

\* C10 all, success: when every member settled Fulfilled, the returned Promise
\* settles Fulfilled with the members' values in input order, sep between
\* neighbours (";" for all), whatever the order the members settled in.
C10_AllSuccess ==
  (ResultDone /\ \A i \in Members : mstatus[i] = "Fulfilled") =>
    /\ status = "Fulfilled"
    /\ value.some
    /\ Len(value.str) = Offset(NMembers) + Len(MemberStr(NMembers))
    /\ \A i \in Members :
         SubSeq(value.str, Offset(i) + 1, Offset(i) + Len(MemberStr(i))) = MemberStr(i)
    /\ \A i \in 1..(NMembers - 1) :
         SubSeq(value.str, Offset(i) + Len(MemberStr(i)) + 1, Offset(i + 1)) = Sep

\* C10 witness: all() on members that resolved with their own one-character
\* strings, settled last member first; the result is "1;2;..."
C10_Witness ==
  /\ ResultDone
  /\ entry = "all"
  /\ \A i \in Members : mstatus[i] = "Fulfilled" /\ mvalue[i] = Some(<<i>>)
  /\ \A i \in Members : morder[i] = NMembers + 1 - i
  /\ status = "Fulfilled"
  /\ Len(value.str) = 2 * NMembers - 1
  /\ value.str[1] = 1 /\ value.str[2] = Semicolon /\ value.str[3] = 2

\* the members by their final Status
FulfilledMembers == {i \in Members : mstatus[i] = "Fulfilled"}
RejectedMembers == {i \in Members : mstatus[i] = "Rejected"}
PendingMembers == {i \in Members : mstatus[i] = "Pending"}

\* the last member of a non-empty set, in input order
LastOf(S) == CHOOSE i \in S : \A j \in S : j <= i

\* the text of member i's payload, the empty string standing for an absent one
Text(i) == IF mvalue[i].some THEN mvalue[i].str ELSE <<>>

\* C11 all, rejection: with at least one member Rejected, every member has
\* been joined when all_ex returns, and the returned Promise settles Rejected
\* with the reason of the last Rejected member in input order, and nothing
\* of the Fulfilled members' values.
C11_AllRejection ==
  /\ apc = "returned" => (idx = NMembers + 1 /\ \A i \in Members : mthread[i] = "done")
  /\ (ResultDone /\ RejectedMembers # {}) =>
       /\ status = "Rejected"
       /\ value = Some(Text(LastOf(RejectedMembers)))

\* C11 witness: a Fulfilled member followed by two Rejected ones with
\* different reasons; the result carries the reason of the later one
C11_Witness ==
  /\ ResultDone
  /\ mstatus[1] = "Fulfilled" /\ mvalue[1] = Some(<<1>>)
  /\ mstatus[2] = "Rejected" /\ mvalue[2] = Some(<<2>>)
  /\ mstatus[3] = "Rejected" /\ mvalue[3] = Some(<<3>>)
  /\ status = "Rejected"
  /\ value = Some(<<3>>)

\* total length of the texts of the members in S
RECURSIVE TextLen(_)
TextLen(S) ==
  IF S = {} THEN 0
  ELSE LET i == CHOOSE j \in S : TRUE IN Len(Text(i)) + TextLen(S \ {i})

\* C12 Absent-value coercion: the payload of the returned Promise is never
\* absent; a Fulfilled member with no payload adds the empty string to the
\* joined value and keeps its separator, and a last Rejected member with no
\* payload makes the reason the empty string.
C12_AbsentCoercion ==
  ResultDone =>
    /\ value.some
    /\ (RejectedMembers = {} /\ FulfilledMembers # {}) =>
         Len(value.str) = TextLen(FulfilledMembers)
                            + (Cardinality(FulfilledMembers) - 1) * Len(Sep)
    /\ (RejectedMembers # {} /\ ~mvalue[LastOf(RejectedMembers)].some) =>
         value = Some(<<>>)

\* C12 witness: all() on resolved(1), resolved(None), ...: every member is
\* Fulfilled, the second one with no payload, and the result starts "1;;"
C12_Witness ==
  /\ ResultDone
  /\ entry = "all"
  /\ FulfilledMembers = Members
  /\ mvalue[1] = Some(<<1>>)
  /\ mvalue[2] = NoneVal
  /\ SubSeq(value.str, 1, 3) = <<1, Semicolon, Semicolon>>

\* where Fulfilled member i's text starts in the joined string (0-based),
\* counting the Fulfilled members before it only
RECURSIVE FulfilledOffset(_)
FulfilledOffset(i) ==
  IF i = 1 THEN 0
  ELSE FulfilledOffset(i - 1)
         + (IF mstatus[i - 1] = "Fulfilled" THEN Len(Text(i - 1)) + Len(Sep) ELSE 0)

\* C13 Never-settled member: a member still Pending after its thread was
\* joined adds no element and no separator to the joined value, has no part
\* in the rejection reason, and does not make the result Rejected.
C13_PendingOmitted ==
  (ResultDone /\ PendingMembers # {}) =>
    /\ status = IF RejectedMembers = {} THEN "Fulfilled" ELSE "Rejected"
    /\ RejectedMembers # {} => value = Some(Text(LastOf(RejectedMembers)))
    /\ RejectedMembers = {} =>
         /\ Len(value.str) = TextLen(FulfilledMembers)
              + (IF FulfilledMembers = {} THEN 0
                 ELSE (Cardinality(FulfilledMembers) - 1) * Len(Sep))
         /\ \A i \in FulfilledMembers :
              SubSeq(value.str, FulfilledOffset(i) + 1,
                     FulfilledOffset(i) + Len(Text(i))) = Text(i)

\* C13 witness: all() with the second member never settled between two
\* Fulfilled ones: the result is "1;3", Fulfilled
C13_Witness ==
  /\ ResultDone
  /\ entry = "all"
  /\ mstatus[1] = "Fulfilled" /\ mvalue[1] = Some(<<1>>)
  /\ mstatus[2] = "Pending"
  /\ mstatus[3] = "Fulfilled" /\ mvalue[3] = Some(<<3>>)
  /\ status = "Fulfilled"
  /\ SubSeq(value.str, 1, 3) = <<1, Semicolon, 3>>

\* the executor returned without calling resolve or reject
NeverSettled == made = <<>> /\ bpc = "done"

\* C14 Never-settled Promise: once the executor has returned without calling
\* resolve or reject, a_await can return, Status is Pending and the value
\* absent from then on, and no queued handler is invoked.
C14_NeverSettled ==
  NeverSettled =>
    /\ status = "Pending"
    /\ value = NoneVal
    /\ invoked = <<>>
    /\ opc = "idle" => ENABLED Await

\* C14 witness: handlers were queued, the executor returned without
\* settling, and a_await has returned
C14_Witness ==
  /\ NeverSettled
  /\ opc = "joined"
  /\ Len(pushed) >= 3
  /\ status = "Pending"

\* C16 Queue-availability invariant: while the queue is available Status is
\* Pending (a settled Status means the queue was consumed), and a consumed
\* queue never becomes available again.
C16_QueueAvailability ==
  /\ [](handlers.avail => status = "Pending")
  /\ [][~handlers.avail => ~handlers'.avail]_vars

\* C16 witness: a settled Promise whose queue, with entries in it, was consumed
C16_Witness ==
  /\ status # "Pending"
  /\ ~handlers.avail
  /\ pushed # <<>>

\* C17 (as claimed) Atomic pair registration: the queue settlement consumed
\* never holds the fulfillment entry of a then call without its rejection
\* entry.
C17_PairTakenTogether ==
  ~handlers.avail =>
    \A i \in 1..Len(pushed) :
      pushed[i].resolve =>
        \E j \in 1..Len(pushed) :
          ~pushed[j].resolve /\ pushed[j].id = pushed[i].id + 1

\* f1, ..., fk applied in call order to the payload of the first call
RECURSIVE Chain(_)
Chain(k) ==
  IF k = 0 THEN First.arg
  ELSE Apply(Handler(TRUE, FulfilledId(k), issued[k].f), Chain(k - 1))

\* C18 Mixed-timing chain order: the executor resolves with v and the owner
\* issues then calls only; once resolve has returned and every call issued
\* has returned, the value is fn(...f1(v)), wherever settlement fell in the
\* sequence of calls.
C18_MixedChain ==
  (/\ Len(made) >= 1
   /\ First.kind = "resolve"
   /\ ci >= 1
   /\ opc \in {"idle", "joined"}
   /\ \A k \in 1..Len(issued) : issued[k].op = "then")
  => value = Chain(Len(issued))

\* C18 witness: two input-dependent then calls, the first queued before
\* settlement and the second applied at once after it
C18_Witness ==
  /\ ci = 1
  /\ First.kind = "resolve"
  /\ opc = "idle"
  /\ Len(issued) = 2
  /\ \A k \in 1..2 : issued[k].op = "then" /\ issued[k].f = "app"
  /\ Len(pushed) = 2
  /\ Len(ImmediateLog) = 1
  /\ value = Some(UnwrapOrEmpty(First.arg) \o <<FulfilledId(1), FulfilledId(2)>>)

\* the value slot holds what settlement stored, as transformed since
PublishedValue == IF invoked = <<>> THEN First.arg ELSE invoked[Len(invoked)].ret

\* C19 Value is published before status: whenever Status is Fulfilled or
\* Rejected the value slot holds the result of settlement's fold, as
\* transformed by the handlers applied at once since; a handler applied at
\* once is given that value, never the absent value from before settlement.
C19_ValueBeforeStatus ==
  /\ status # "Pending" => value = PublishedValue
  /\ \A i \in 1..Len(invoked) :
       invoked[i].by = "immediate" =>
         invoked[i].arg = IF i = 1 THEN First.arg ELSE invoked[i - 1].ret

\* C19 witness: resolve(Some) on an empty queue, then a then call applied at
\* once that was given that payload
C19_Witness ==
  /\ status = "Fulfilled"
  /\ First.arg # NoneVal
  /\ Len(invoked) = 1
  /\ invoked[1].by = "immediate"
  /\ invoked[1].arg = First.arg

\* C15 Await guarantees settlement: with an executor that calls one of
\* resolve / reject once and returns, and the background thread scheduled,
\* the Promise eventually is Fulfilled (resp. Rejected); once the thread has
\* been joined Status is not Pending; with no then / catch call made the
\* value is the payload v (resp. r).
C15_AwaitSettles ==
  /\ <>(made # <<>> /\ status = SettledStatus(First.kind))
  /\ [](opc = "joined" => status # "Pending")
  /\ []((bpc = "done" /\ issued = <<>>) => value = First.arg)

\* C15 witness: resolve(Some) alone, the thread joined: Fulfilled with that payload
C15_Witness ==
  /\ opc = "joined"
  /\ issued = <<>>
  /\ status = "Fulfilled"
  /\ value = Some(<<0>>)
  /\ value = First.arg

\* a call is in progress on the thread
BgInCall == bpc \in {"take", "fold", "store", "status", "drop_state", "drop_result"}
OwnerInCall == ~OwnerAtRest

\* the mutex each thread is about to lock, if any
BgWants ==
  CASE bpc = "take"   -> "handlers"
    [] bpc = "store"  -> "value"
    [] bpc = "status" -> "status"
    [] OTHER          -> "none"
OwnerWants ==
  CASE OwnerAtPush -> "handlers"
    [] opc \in {"then_match", "catch_match"} /\ ~OwnerAtPush /\ ost = "Rejected" -> "value"
    [] opc = "then_match" /\ ost = "Fulfilled" -> "value"
    [] OTHER -> "none"

\* who holds a mutex
Holder(m) ==
  CASE m = "handlers" -> hlock
    [] m = "value"    -> vlock
    [] m = "status"   -> slock
    [] OTHER          -> "free"

\* each thread waits for a mutex the other one holds
CircularWait == Holder(BgWants) = "owner" /\ Holder(OwnerWants) = "bg"

\* C20 Deadlock freedom: the two threads never wait on mutexes held by each
\* other, and with both threads scheduled every resolve / reject call and
\* every then / catch call that started comes to its end or aborts.
C20_DeadlockFree ==
  /\ [](~CircularWait)
  /\ [](BgInCall => <>(~BgInCall))
  /\ [](OwnerInCall => <>OwnerAtRest)

\* C20 witness: a then call that had to wait for the handlers mutex during
\* the fold has ended (by its panic) and the resolve call has returned
C20_Witness ==
  /\ ci = 1
  /\ bpc = "done"
  /\ opc = "aborted"
  /\ Len(pushed) = 3
  /\ Len(SettleLog) >= 1

====
